---- MODULE Spec2Model ----
(***************************************************************************)
(* Model of publish.py: the reconciliation routine that cross-posts the    *)
(* changed blog posts of a git repository to dev.to, Medium and Hashnode   *)
(* and records the platform identifiers in status.yml.                     *)
(*                                                                         *)
(* Strings that the code takes apart (file paths) are sequences of tokens, *)
(* <<"blog-posts/", "p1", ".", "md">>; identifiers returned by a platform  *)
(* are the numbers 1..MaxId and Python's None is 0.                        *)
(***************************************************************************)
EXTENDS Integers, Sequences, FiniteSets, TLC

VARIABLES
    tracked,   \* status.yml is part of the HEAD commit
    head,      \* the Status stored in HEAD:status.yml
    disk,      \* the Status stored in the working copy's status.yml
    diff,      \* paths named by git diff HEAD^ HEAD --name-only
    files,     \* post resources that exist in the working tree
    draft,     \* posts whose setting file says draft: true
    pc,        \* position of the process (commit_all and the prompts)
    err,       \* the exception that ended the last process, "none" if none did
    rerun,     \* the process started right after a run that ended without error
    startDisk, \* the working copy's Status when the process started
    todo,      \* (post, blog) pairs the second loop of commit_all still has to do
    sure,      \* local variable sure of update_post
    calls,     \* adapter calls completed in the current run, in order
    nextId,    \* next identifier a platform hands out
    commits,   \* commits the operator has made
    created,   \* per pair: identifier returned by create in the last finished run of the post
    setting,   \* a PostSetting read from a setting file
    adapter,   \* the adapter that built payload, "none" before
    payload    \* the JSON document the adapter hands to requests.post

\* the variables of the payload builders
pvars == <<setting, adapter, payload>>

vars == <<tracked, head, disk, diff, files, draft, pc, err, rerun, startDisk,
          todo, sure, calls, nextId, commits, created, setting, adapter, payload>>

----------------------------------------------------------------------------
(* Bounds and vocabulary *)

MaxId == 6

MaxCommits == 2

None == 0

StemNames == {"p1", "p2"}

StatusPath == <<"status", ".", "yml">>

\* class Blog, in the order of API_MAP
BlogOrder == <<"devto", "medium", "hashnode">>

Blog == {BlogOrder[i] : i \in 1..Len(BlogOrder)}

\* BlogStatus(): a BlogStatus whose post_id is None
BlogStatus == [post_id |-> None]

\* Status() / PostStatus(): the empty mapping
EmptyMap == [k \in {} |-> None]

----------------------------------------------------------------------------
(* Paths *)

RECURSIVE LastDot(_, _)
\* index of the last "." token of s at or before i, 0 if there is none
LastDot(s, i) ==
    IF i = 0 THEN 0
    ELSE IF s[i] = "." THEN i ELSE LastDot(s, i - 1)

\* post_or_setting.rpartition(".")[0]
get_post(post_or_setting) ==
    LET k == LastDot(post_or_setting, Len(post_or_setting))
    IN  IF k = 0 THEN <<>> ELSE SubSeq(post_or_setting, 1, k - 1)

get_setting(post) == post \o <<".", "json">>

get_content(post) == post \o <<".", "md">>

Posts == {<<"blog-posts/", n>> : n \in StemNames}

\* p.endswith("." + ext)
EndsWith(p, ext) ==
    /\ Len(p) >= 2
    /\ p[Len(p) - 1] = "."
    /\ p[Len(p)] = ext

\* p.startswith("blog-posts/")
StartsWithBlogPosts(p) == Len(p) >= 1 /\ p[1] = "blog-posts/"

\* the set built by all_modified_posts from the names of the diff
all_modified_posts(names) ==
    {get_post(p) : p \in {q \in names : /\ StartsWithBlogPosts(q)
                                        /\ (EndsWith(q, "md") \/ EndsWith(q, "json"))}}

----------------------------------------------------------------------------
(* Status store *)

\* parse_status: rebuilds the nested mapping, one BlogStatus per entry
parse_status(d) ==
    [post \in DOMAIN d |->
        [blog \in DOMAIN d[post] |-> [post_id |-> d[post][blog].post_id]]]

\* get_status reading the working copy's status.yml
get_status_working_copy == disk

\* get_status(current=True): git show CUR_COMMIT:status.yml, empty when the
\* command fails because the commit has no such file
get_status ==
    IF tracked THEN parse_status(head) ELSE EmptyMap

\* get_post_status: status.get(base, PostStatus())
get_post_status(base) ==
    IF base \in DOMAIN get_status THEN get_status[base] ELSE EmptyMap

\* write_status: the document dumped to status.yml; the defaultdict gets a
\* key for a post only when the post has at least one blog entry
write_status(status) ==
    [post \in {q \in DOMAIN status : DOMAIN status[q] # {}} |->
        [blog \in DOMAIN status[post] |-> [post_id |-> status[post][blog].post_id]]]

\* d[k] = v on a dict
DictSet(d, k, v) == [q \in DOMAIN d \cup {k} |-> IF q = k THEN v ELSE d[q]]

\* update_post_status without its assignment status[post] = post_status
update_post_status_stale(post, post_status) ==
    write_status(get_status)

\* update_post_status: the document it leaves in status.yml
update_post_status(post, post_status) ==
    write_status(DictSet(get_status, post, post_status))

----------------------------------------------------------------------------
(* JSON values: a value carries its type in t and its content in v.         *)

Null == [t |-> "null"]

Str(x) == [t |-> "str", v |-> x]

Bool(x) == [t |-> "bool", v |-> x]

List(x) == [t |-> "list", v |-> x]

Dict(x) == [t |-> "dict", v |-> x]

\* class PostSetting: title and draft are required, the rest is Optional
PostSetting(title, slug, isDraft, main_image, description, tags, canonical_url, devto_series) ==
    [title |-> title, slug |-> slug, draft |-> isDraft, main_image |-> main_image,
     description |-> description, tags |-> tags, canonical_url |-> canonical_url,
     devto_series |-> devto_series]

\* a setting file that gives the required fields only
DefaultSetting ==
    PostSetting(Str("title"), Null, Bool(FALSE), Null, Null, Null, Null, Null)

\* the settings a setting file can give
Settings ==
    {PostSetting(Str("title"), slug, Bool(isDraft), main_image, description, tags,
                 canonical_url, devto_series) :
        slug \in {Null, Str("slug")}, isDraft \in BOOLEAN,
        main_image \in {Null, Str("img")}, description \in {Null, Str("desc")},
        tags \in {Null, List(<<>>), List(<<"intro">>)},
        canonical_url \in {Null, Str("url")}, devto_series \in {Null, Str("series")}}

----------------------------------------------------------------------------
(* Initial state: a repository with an empty or absent status.yml and no   *)
(* changed post; the process is not running.                               *)

Init ==
    /\ tracked \in BOOLEAN
    /\ head = EmptyMap
    /\ disk = EmptyMap
    /\ diff = {}
    /\ files = {}
    /\ draft = {}
    /\ pc = "idle"
    /\ err = "none"
    /\ rerun = FALSE
    /\ startDisk = EmptyMap
    /\ todo = <<>>
    /\ sure = "none"
    /\ calls = <<>>
    /\ nextId = 1
    /\ commits = 0
    /\ created = [p \in Posts |-> [b \in Blog |-> None]]
    /\ setting = DefaultSetting
    /\ adapter = "none"
    /\ payload = Null

\* no process is running: the repository can change and a run can start
Stopped == pc \in {"idle", "exit_ok", "exit_err"}

----------------------------------------------------------------------------
(* The repository between two runs *)

\* the resources of the posts a set of names yields
ResourcesOf(names) ==
    UNION {{get_content(p), get_setting(p)} : p \in all_modified_posts(names)}

\* The names a commit of the operator can change: a content file together
\* with a file outside blog-posts/, a setting file alone, both files of one
\* post, files of both posts.
DiffChoices ==
    { {<<"blog-posts/", "p1", ".", "md">>, <<"README", ".", "md">>},
      {<<"blog-posts/", "p2", ".", "json">>},
      {<<"blog-posts/", "p1", ".", "md">>, <<"blog-posts/", "p1", ".", "json">>},
      {<<"blog-posts/", "p1", ".", "json">>, <<"blog-posts/", "p2", ".", "md">>,
       <<"blog-posts/", "p2", ".", "json">>} }

\* The operator commits a change of some post resources, with or without the
\* working copy's status.yml (git add status.yml needs the file: when it is
\* untracked it exists only once written, disk # head); HEAD and HEAD^
\* (CUR_COMMIT, LAST_COMMIT of the next process) move by one commit.  At
\* most one resource of the changed posts is missing afterwards.
ContentCommit ==
    /\ Stopped
    /\ commits < MaxCommits
    /\ commits' = commits + 1
    /\ \E names \in DiffChoices, withStatus \in {w \in BOOLEAN : w => disk # head} :
        \E missing \in {m \in SUBSET ResourcesOf(names) : Cardinality(m) <= 1} :
        \E dr \in {d \in SUBSET all_modified_posts(names) : missing # {} => d = {}} :
            /\ files' = (files \cup ResourcesOf(names)) \ missing
            /\ draft' = {p \in draft : /\ p \notin all_modified_posts(names)
                                       /\ get_setting(p) \in files} \cup dr
            /\ IF withStatus
               THEN /\ tracked' = TRUE
                    /\ head' = disk
                    /\ diff' = names \cup {StatusPath}
               ELSE /\ UNCHANGED <<tracked, head>>
                    /\ diff' = names
    /\ pc' = "idle"
    /\ UNCHANGED <<disk, err, rerun, startDisk, todo, sure, calls, nextId, created>>
    /\ UNCHANGED pvars

----------------------------------------------------------------------------
(* commit_all *)

RECURSIVE Orders(_)
\* the orders in which iterating a set can yield its elements
Orders(S) ==
    IF S = {} THEN {<<>>}
    ELSE UNION {{<<x>> \o o : o \in Orders(S \ {x})} : x \in S}

RECURSIVE Pairs(_)
\* for post in posts: for blog_api in API_MAP.values(): the pairs in order
Pairs(posts) ==
    IF posts = <<>> THEN <<>>
    ELSE [i \in 1..Len(BlogOrder) |-> [post |-> Head(posts), blog |-> BlogOrder[i]]]
         \o Pairs(Tail(posts))

\* all_modified_posts without set(): one post per changed resource
ModifiedOrder_no_set(names) ==
    {[i \in 1..Len(o) |-> get_post(o[i])] :
        o \in Orders({q \in names : /\ StartsWithBlogPosts(q)
                                     /\ (EndsWith(q, "md") \/ EndsWith(q, "json"))})}

\* for post in all_modified_posts(): the sequences of posts the generator
\* can yield, the elements of the set in any order
ModifiedOrder(names) == Orders(all_modified_posts(names))

\* repo.git.diff() != "" without the assertion that follows it
TreeDirty_logged_only(otherDirty) == FALSE

\* repo.git.diff() != "": status.yml or another tracked file is modified
TreeDirty(otherDirty) == otherDirty \/ (tracked /\ disk # head)

\* repo.git.diff("status.yml") != "": the tracked file differs from HEAD
StatusDiff == tracked /\ disk # head

\* commit_all without its loop of os.path.exists checks
MissingResource_skipped == FALSE

\* some changed post lacks its content or its setting file
MissingResource ==
    \E post \in all_modified_posts(diff) :
        get_content(post) \notin files \/ get_setting(post) \notin files

\* A process starts: the clean-tree assertion and the loop that checks the
\* resources of every changed post.  otherDirty: a tracked file other than
\* status.yml has uncommitted modifications.
StartRun ==
    /\ Stopped
    /\ calls' = <<>>
    /\ sure' = "none"
    /\ rerun' = (pc = "exit_ok")
    /\ startDisk' = disk
    /\ \E otherDirty \in BOOLEAN :
        IF TreeDirty(otherDirty)
        THEN /\ pc' = "exit_err"
             /\ err' = "AssertionError"
             /\ todo' = <<>>
        ELSE IF MissingResource
        THEN /\ pc' = "exit_err"
             /\ err' = "FileNotFoundError"
             /\ todo' = <<>>
        ELSE /\ pc' = "loop"
             /\ err' = "none"
             /\ \E order \in ModifiedOrder(diff) : todo' = Pairs(order)
    /\ UNCHANGED <<tracked, head, disk, diff, files, draft, nextId, commits, created>>
    /\ UNCHANGED pvars

----------------------------------------------------------------------------
(* Platform adapters.  An outcome of an adapter step is a record: ok (it   *)
(* returned rather than raised), result (the returned post id), http (a    *)
(* request was sent to the platform), fresh (the platform assigned a new   *)
(* identifier).                                                            *)

Outcome(ok, result, http, fresh) ==
    [ok |-> ok, result |-> result, http |-> http, fresh |-> fresh]

\* read_post_content_and_setting raises when a resource cannot be opened
ReadFails(post) ==
    get_setting(post) \notin files \/ get_content(post) \notin files

\* requests.post of a make_posted: a non-success status raises HTTPError, a
\* success returns the identifier the platform assigned
HttpCreate ==
    {Outcome(FALSE, None, TRUE, FALSE)}
    \cup (IF nextId <= MaxId THEN {Outcome(TRUE, nextId, TRUE, TRUE)} ELSE {})

\* make_posted without Hashnode's test of post_setting.draft
make_posted_no_draft_test(blog, post) ==
    IF ReadFails(post) THEN {Outcome(FALSE, None, FALSE, FALSE)}
    ELSE HttpCreate

\* Medium.make_posted, Devto.make_posted, Hashnode.make_posted
make_posted(blog, post) ==
    IF ReadFails(post) THEN {Outcome(FALSE, None, FALSE, FALSE)}
    ELSE IF blog = "hashnode" /\ post \in draft
    THEN {Outcome(TRUE, None, FALSE, FALSE)}
    ELSE HttpCreate

\* update_post asks the operator: Medium always, Hashnode for a post that is
\* not a draft
Escalates(blog, post) ==
    \/ blog = "medium"
    \/ blog = "hashnode" /\ ~ReadFails(post) /\ post \notin draft

\* Devto.update_post, and Hashnode.update_post up to its prompt
update_post(blog, post, post_id) ==
    IF ReadFails(post) THEN {Outcome(FALSE, None, FALSE, FALSE)}
    ELSE IF blog = "hashnode"
    THEN {Outcome(TRUE, post_id, FALSE, FALSE)}
    ELSE {Outcome(FALSE, None, TRUE, FALSE), Outcome(TRUE, post_id, TRUE, FALSE)}

----------------------------------------------------------------------------
(* commit_post *)

\* the post status commit_post works on: the committed one, with an empty
\* BlogStatus added when the blog has no key
PostStatusOf(post, blog) ==
    LET post_status == get_post_status(post)
    IN  IF blog \in DOMAIN post_status THEN post_status
        ELSE DictSet(post_status, blog, BlogStatus)

\* commit_post looking at a new BlogStatus() instead of the stored one
StoredId_blank == None

\* blog_status.post_id of the pair at the head of todo
StoredId == PostStatusOf(Head(todo).post, Head(todo).blog)[Head(todo).blog].post_id

\* an adapter that returns None where it should raise
Propagates_swallowed(o) == FALSE

\* an exception raised by an adapter leaves commit_post and commit_all
Propagates(o) == ~o.ok

Entry(kind, pair, arg, nested, o) ==
    [kind |-> kind, post |-> pair.post, blog |-> pair.blog, arg |-> arg,
     nested |-> nested, http |-> o.http, ok |-> o.ok, result |-> o.result]

\* the adapter call of the pair at the head of todo ends with outcome o:
\* the assignment to blog_status.post_id and update_post_status, or the
\* exception that ends the process
Return(log, o) ==
    LET post == Head(todo).post
        blog == Head(todo).blog
    IN  /\ calls' = calls \o log
        /\ sure' = "none"
        /\ nextId' = IF o.fresh THEN nextId + 1 ELSE nextId
        /\ IF Propagates(o)
           THEN /\ pc' = "exit_err"
                /\ err' = IF o.http THEN "HTTPError" ELSE "FileNotFoundError"
                /\ created' = [p \in Posts |->
                                 IF p \in all_modified_posts(diff)
                                 THEN [b \in Blog |-> None] ELSE created[p]]
                /\ UNCHANGED <<disk, todo>>
           ELSE /\ pc' = "loop"
                /\ err' = "none"
                /\ todo' = Tail(todo)
                /\ disk' = update_post_status(post,
                              DictSet(PostStatusOf(post, blog), blog, [post_id |-> o.result]))
                /\ UNCHANGED created
        /\ UNCHANGED <<tracked, head, diff, files, draft, rerun, startDisk, commits>>

\* commit_post for the next pair, up to its return or to the first prompt
CommitPost ==
    /\ pc = "loop"
    /\ todo # <<>>
    /\ UNCHANGED pvars
    /\ LET pair == Head(todo)
           post_id == StoredId
       IN  IF post_id = None
           THEN \E o \in make_posted(pair.blog, pair.post) :
                    Return(<<Entry("create", pair, None, FALSE, o)>>, o)
           ELSE IF Escalates(pair.blog, pair.post)
           THEN /\ pc' = "option"
                /\ UNCHANGED <<tracked, head, disk, diff, files, draft, err, rerun,
                               startDisk, todo, sure, calls, nextId, commits, created>>
           ELSE \E o \in update_post(pair.blog, pair.post, post_id) :
                    Return(<<Entry("update", pair, post_id, FALSE, o)>>, o)

----------------------------------------------------------------------------
(* The escalation procedure of Medium.update_post and Hashnode.update_post: *)
(* one action per answer the operator types.                                *)

OptionInputs == {"m", "D", "x"}

SureInputs == {"y", "N", "x", ""}

DoneInputs == {"Done", "done"}

\* str.upper() on the answers above
Upper(inp) ==
    CASE inp = "m" -> "M"
      [] inp = "d" -> "D"
      [] inp = "y" -> "Y"
      [] inp = "n" -> "N"
      [] inp = "yn" -> "YN"
      [] inp = "x" -> "X"
      [] OTHER -> inp

\* sure in "YN": the substring test of Python on the answers above
InYN(s) == s \in {"", "Y", "N", "YN"}

\* while (sure := input(...).upper()) not in "YN": break
\* the loop is left after one answer, by the break or by its condition
SureLoop(s) == IF ~InYN(s) THEN "break" ELSE "condition"

\* if sure == "N": continue
Declined(s) == s = "N"

\* option = input("[M]anual/[D]elete-then-create").upper()
Option ==
    /\ pc = "option"
    /\ UNCHANGED pvars
    /\ \E inp \in OptionInputs :
        LET option == Upper(inp)
            o == Outcome(TRUE, None, FALSE, FALSE)
        IN  IF option = "M"
            THEN Return(<<Entry("update", Head(todo), StoredId, FALSE, o)>>, o)
            ELSE /\ pc' = IF option = "D" THEN "sure" ELSE "option"
                 /\ UNCHANGED <<tracked, head, disk, diff, files, draft, err, rerun,
                                startDisk, todo, sure, calls, nextId, commits, created>>

\* the "Are you sure? [y/N]" prompt
Sure ==
    /\ pc = "sure"
    /\ UNCHANGED pvars
    /\ \E inp \in SureInputs :
        /\ sure' = Upper(inp)
        /\ SureLoop(sure') \in {"break", "condition"}
        /\ pc' = IF Declined(sure') THEN "option" ELSE "done"
    /\ UNCHANGED <<tracked, head, disk, diff, files, draft, err, rerun, startDisk,
                   todo, calls, nextId, commits, created>>

\* the 'Type "Done"' prompt, then return self.make_posted(post)
Done ==
    /\ pc = "done"
    /\ UNCHANGED pvars
    /\ \E inp \in DoneInputs :
        IF inp # "Done"
        THEN UNCHANGED vars
        ELSE \E o \in make_posted(Head(todo).blog, Head(todo).post) :
                Return(<<Entry("create", Head(todo), None, TRUE, o),
                         Entry("update", Head(todo), StoredId, FALSE,
                               [o EXCEPT !.http = FALSE])>>, o)

----------------------------------------------------------------------------
(* End of commit_all *)

\* the calls of the current run made by commit_post itself
TopCalls == {i \in 1..Len(calls) : ~calls[i].nested}

\* identifiers returned by create for a post all of whose calls were creates
CreatedBy(p) ==
    IF \A i \in TopCalls : calls[i].post = p => calls[i].kind = "create"
    THEN [b \in Blog |->
            IF \E i \in TopCalls : calls[i].post = p /\ calls[i].blog = b
            THEN calls[CHOOSE i \in TopCalls : calls[i].post = p /\ calls[i].blog = b].result
            ELSE None]
    ELSE [b \in Blog |-> None]

\* after the loops: git diff status.yml, then git add and git commit
FinishRun ==
    /\ pc = "loop"
    /\ todo = <<>>
    /\ UNCHANGED pvars
    /\ pc' = "exit_ok"
    /\ IF StatusDiff
       THEN /\ head' = disk
            /\ diff' = {StatusPath}
       ELSE UNCHANGED <<head, diff>>
    /\ created' = [p \in Posts |->
                     IF p \in all_modified_posts(diff) THEN CreatedBy(p) ELSE created[p]]
    /\ UNCHANGED <<tracked, disk, files, draft, err, rerun, startDisk, todo, sure,
                   calls, nextId, commits>>

----------------------------------------------------------------------------

Next ==
    \/ ContentCommit
    \/ StartRun
    \/ CommitPost
    \/ Option
    \/ Sure
    \/ Done
    \/ FinishRun

Spec == Init /\ [][Next]_vars

----------------------------------------------------------------------------
(* Payloads: what make_posted and update_post hand to requests.post         *)

\* payload[k] = v when cond holds, payload otherwise
SetIf(cond, d, k, v) == IF cond THEN DictSet(d, k, v) ELSE d

\* Medium.build_payload without the test of tags
Medium_build_payload_tags_always(post_content, post_setting) ==
    LET p0 == DictSet(DictSet(EmptyMap, "content", Str(post_content)),
                      "contentFormat", Str("markdown"))
        p1 == SetIf(post_setting.title.t # "null", p0, "title", post_setting.title)
        p2 == SetIf(post_setting.draft.t # "null", p1, "publishStatus",
                    IF post_setting.draft.v THEN Str("draft") ELSE Str("public"))
        p3 == DictSet(p2, "tags", post_setting.tags)
        p4 == SetIf(post_setting.main_image.t # "null", p3, "canonicalUrl",
                    post_setting.canonical_url)
    IN  Dict(p4)

\* Medium.build_payload: canonicalUrl is set when main_image is not None
Medium_build_payload(post_content, post_setting) ==
    LET p0 == DictSet(DictSet(EmptyMap, "content", Str(post_content)),
                      "contentFormat", Str("markdown"))
        p1 == SetIf(post_setting.title.t # "null", p0, "title", post_setting.title)
        p2 == SetIf(post_setting.draft.t # "null", p1, "publishStatus",
                    IF post_setting.draft.v THEN Str("draft") ELSE Str("public"))
        p3 == SetIf(post_setting.tags.t # "null", p2, "tags", post_setting.tags)
        p4 == SetIf(post_setting.main_image.t # "null", p3, "canonicalUrl",
                    post_setting.canonical_url)
    IN  Dict(p4)

\* Devto.build_payload
Devto_build_payload(post_content, post_setting) ==
    LET a0 == DictSet(EmptyMap, "body_markdown", Str(post_content))
        a1 == SetIf(post_setting.title.t # "null", a0, "title", post_setting.title)
        a2 == SetIf(post_setting.draft.t # "null", a1, "published",
                    Bool(~post_setting.draft.v))
        a3 == SetIf(post_setting.tags.t # "null", a2, "tags", post_setting.tags)
        a4 == SetIf(post_setting.main_image.t # "null", a3, "main_image",
                    post_setting.main_image)
        a5 == SetIf(post_setting.canonical_url.t # "null", a4, "canonical_url",
                    post_setting.canonical_url)
        a6 == SetIf(post_setting.description.t # "null", a5, "description",
                    post_setting.description)
        a7 == SetIf(post_setting.devto_series.t # "null", a6, "series",
                    post_setting.devto_series)
    IN  Dict(DictSet(EmptyMap, "article", Dict(a7)))

\* else_none of Hashnode.make_posted
else_none(a) == IF a.t = "null" THEN Null ELSE a

RECURSIVE drop_none(_)
\* drop_none of Hashnode.make_posted: pops the keys whose value is None, in
\* d and in every dict below it
drop_none(d) ==
    [k \in {q \in DOMAIN d : d[q].t # "null"} |->
        IF d[k].t = "dict" THEN Dict(drop_none(d[k].v)) ELSE d[k]]

\* the body Hashnode.make_posted builds, before drop_none
Hashnode_body(post_content, post_setting) ==
    [query |-> Str("createPublicationStory"),
     variables |-> Dict(
        [input |-> Dict(
            [title |-> else_none(post_setting.title),
             slug |-> else_none(post_setting.slug),
             contentMarkdown |-> Str(post_content),
             tags |-> List(<<>>),
             coverImage |-> else_none(post_setting.main_image),
             isRepublished |->
                IF post_setting.canonical_url.t = "null" THEN Null
                ELSE Dict([originalArticleURL |-> post_setting.canonical_url])]),
         publicationId |-> Str("616bdc5d7c361e5132822556")])]

\* the document Hashnode.make_posted sends
Hashnode_build_payload(post_content, post_setting) ==
    Dict(drop_none(Hashnode_body(post_content, post_setting)))

\* Medium.make_posted up to requests.post
MediumRequest ==
    /\ adapter = "none"
    /\ adapter' = "medium"
    /\ payload' = Medium_build_payload("body", setting)
    /\ UNCHANGED <<tracked, head, disk, diff, files, draft, pc, err, rerun, startDisk,
                   todo, sure, calls, nextId, commits, created, setting>>

\* Devto.make_posted and Devto.update_post up to the request
DevtoRequest ==
    /\ adapter = "none"
    /\ adapter' = "devto"
    /\ payload' = Devto_build_payload("body", setting)
    /\ UNCHANGED <<tracked, head, disk, diff, files, draft, pc, err, rerun, startDisk,
                   todo, sure, calls, nextId, commits, created, setting>>

\* Hashnode.make_posted up to requests.post; a draft returns before
HashnodeRequest ==
    /\ adapter = "none"
    /\ ~setting.draft.v
    /\ adapter' = "hashnode"
    /\ payload' = Hashnode_build_payload("body", setting)
    /\ UNCHANGED <<tracked, head, disk, diff, files, draft, pc, err, rerun, startDisk,
                   todo, sure, calls, nextId, commits, created, setting>>

\* any setting file, no process running
PayloadInit ==
    /\ tracked = FALSE
    /\ head = EmptyMap
    /\ disk = EmptyMap
    /\ diff = {}
    /\ files = {}
    /\ draft = {}
    /\ pc = "idle"
    /\ err = "none"
    /\ rerun = FALSE
    /\ startDisk = EmptyMap
    /\ todo = <<>>
    /\ sure = "none"
    /\ calls = <<>>
    /\ nextId = 1
    /\ commits = 0
    /\ created = [p \in Posts |-> [b \in Blog |-> None]]
    /\ setting \in Settings
    /\ adapter = "none"
    /\ payload = Null

PayloadNext ==
    \/ MediumRequest
    \/ DevtoRequest
    \/ HashnodeRequest

PayloadSpec == PayloadInit /\ [][PayloadNext]_vars

----------------------------------------------------------------------------
(* Vocabulary of the properties *)

\* the calls of the current run made by commit_post itself, in order
TopSeq == SelectSeq(calls, LAMBDA e : ~e.nested)

\* a Status holds the result of call e under e's post and blog
Recorded(status, e) ==
    /\ e.post \in DOMAIN status
    /\ e.blog \in DOMAIN status[e.post]
    /\ status[e.post][e.blog].post_id = e.result

\* the post keys and the (post, platform) keys of a Status
KeysOf(status) ==
    {<<p>> : p \in DOMAIN status}
    \cup UNION {{<<p, b>> : b \in DOMAIN status[p]} : p \in DOMAIN status}

\* some changed post lacks its content file or its setting file
LacksResource ==
    \E p \in all_modified_posts(diff) :
        get_content(p) \notin files \/ get_setting(p) \notin files

\* the entries a step appends to calls
NewCalls == {i \in 1..Len(calls') : i > Len(calls)}

----------------------------------------------------------------------------
(* C1..C10 *)

\* C1: with status.yml under version control, once a run that created a
\* post on every platform has ended without error, every call the run after
\* the next commit makes for a pair whose create returned an identifier is
\* an update that passes exactly that identifier.
CreateThenUpdate ==
    (tracked /\ ~rerun /\ ~Stopped) =>
        \A i \in TopCalls :
            created[calls[i].post][calls[i].blog] # None =>
                /\ calls[i].kind = "update"
                /\ calls[i].arg = created[calls[i].post][calls[i].blog]

\* C2: when a run ends without error, the working copy's Status holds, for
\* every pair the run processed, the result its create or update returned.
StatusRecordsEveryResult ==
    pc = "exit_ok" => \A i \in TopCalls : Recorded(disk, calls[i])

\* C3: with status.yml under version control, a run started right after a
\* run that ended without error, with no commit of the operator in between,
\* makes no create call and at most one update call per pair, and ends with
\* the Status the first run left.
Idempotence ==
    (tracked /\ rerun /\ pc # "idle") =>
        /\ \A i \in 1..Len(calls) : calls[i].kind # "create"
        /\ \A i, j \in TopCalls :
              (calls[i].post = calls[j].post /\ calls[i].blog = calls[j].blog) => i = j
        /\ pc = "exit_ok" => disk = startDisk

\* C4: when a call raises, the working copy's Status still holds the results
\* of the posts the run had processed completely before.
MidRunDurability ==
    (pc = "exit_err" /\ todo # <<>>) =>
        \A i \in TopCalls :
            calls[i].post # Head(todo).post => Recorded(disk, calls[i])

\* C5: when the operator answers the escalation prompt with M, the Status
\* written for the pair keeps the identifier update was called with and no
\* request is sent to the platform.
ManualKeepsIdentifier ==
    [][(pc = "option" /\ pc' = "loop") =>
         /\ Head(todo).post \in DOMAIN disk'
         /\ Head(todo).blog \in DOMAIN disk'[Head(todo).post]
         /\ disk'[Head(todo).post][Head(todo).blog].post_id = StoredId
         /\ \A i \in NewCalls : ~calls'[i].http]_vars

\* C6: the escalation reaches the deletion prompt (after which create is
\* called) only when the answer to "Are you sure?" was yes.
RecreateOnlyWhenConfirmed ==
    pc = "done" => sure = "Y"

\* C7: when a call raises right after the call of the previous platform for
\* the same post returned, the working copy's Status holds what that
\* previous call returned.
StatusPersistenceOrdering ==
    (pc = "exit_err" /\ Len(TopSeq) >= 2) =>
        LET a == TopSeq[Len(TopSeq) - 1]
            b == TopSeq[Len(TopSeq)]
        IN  (~b.ok /\ a.post = b.post) => Recorded(disk, a)

StatusPersistenceOrderingWitness ==
    /\ pc = "exit_err"
    /\ Len(TopSeq) >= 2
    /\ ~TopSeq[Len(TopSeq)].ok
    /\ TopSeq[Len(TopSeq) - 1].post = TopSeq[Len(TopSeq)].post
    /\ TopSeq[Len(TopSeq) - 1].result # None
    /\ Recorded(disk, TopSeq[Len(TopSeq) - 1])

\* C8: a process that starts while a changed post lacks its content or its
\* setting file ends with an error before any adapter call and writes
\* nothing to status.yml.
FailFastOnMissingResource ==
    [][(LacksResource /\ pc' # "idle") =>
         /\ pc' = "exit_err"
         /\ calls' = <<>>
         /\ disk' = disk
         /\ head' = head]_vars

FailFastOnMissingResourceWitness ==
    /\ pc = "exit_err"
    /\ err = "FileNotFoundError"
    /\ LacksResource
    /\ Cardinality(all_modified_posts(diff)) = 2
    /\ calls = <<>>

\* C9: no write to status.yml removes a post key or a platform key that the
\* file held before the write.
NoEntryRemoved ==
    [][KeysOf(disk) \subseteq KeysOf(disk')]_vars

\* C10: a step in which a platform request fails ends the process with
\* HTTPError without writing status.yml; afterwards the process makes no
\* further call, and HEAD's status.yml changes only by a commit of the
\* operator.
PlatformErrorAborts ==
    [][/\ (\E i \in NewCalls : calls'[i].http /\ ~calls'[i].ok) =>
            /\ pc' = "exit_err"
            /\ err' = "HTTPError"
            /\ disk' = disk
            /\ head' = head
            /\ todo' = todo
       /\ (pc = "exit_err" /\ err = "HTTPError") =>
            /\ calls' = calls \/ calls' = <<>>
            /\ disk' = disk
            /\ head' # head => pc' = "idle"]_vars

PlatformErrorAbortsWitness ==
    /\ pc = "exit_err"
    /\ err = "HTTPError"
    /\ Len(calls) >= 2
    /\ Len(todo) >= 2
    /\ calls[Len(calls)].http
    /\ ~calls[Len(calls)].ok

----------------------------------------------------------------------------
(* C11, C12: payloads, checked under PayloadSpec *)

RECURSIVE HasNull(_)
\* a JSON value is null or holds a null in a dict below it
HasNull(x) ==
    \/ x.t = "null"
    \/ x.t = "dict" /\ \E k \in DOMAIN x.v : HasNull(x.v[k])

\* the dict of the payload in which the adapter puts the fields of the setting
FieldsOf(blog, doc) ==
    CASE blog = "medium" -> doc.v
      [] blog = "devto" -> doc.v["article"].v
      [] blog = "hashnode" -> doc.v["variables"].v["input"].v

\* the payload keys an adapter fills from an optional setting field
FilledFrom(blog) ==
    CASE blog = "medium" ->
            {<<"tags", "tags">>, <<"canonical_url", "canonicalUrl">>}
      [] blog = "devto" ->
            {<<"tags", "tags">>, <<"main_image", "main_image">>,
             <<"canonical_url", "canonical_url">>, <<"description", "description">>,
             <<"devto_series", "series">>}
      [] blog = "hashnode" ->
            {<<"slug", "slug">>, <<"main_image", "coverImage">>,
             <<"canonical_url", "isRepublished">>}

\* C11: a payload holds no null at any depth, and an optional setting field
\* that is unset leaves the payload without the field the adapter fills from it.
NullOmission ==
    adapter # "none" =>
        /\ ~HasNull(payload)
        /\ \A f \in FilledFrom(adapter) :
              setting[f[1]].t = "null" => f[2] \notin DOMAIN FieldsOf(adapter, payload)

----------------------------------------------------------------------------
(* C13..C18, checked under Spec *)

\* the posts whose content file and setting file are both in the diff
BothChanged ==
    {p \in Posts : get_content(p) \in diff /\ get_setting(p) \in diff}

\* the Status of the commit the process started on
Committed == IF tracked THEN head ELSE EmptyMap

\* the identifier the committed Status holds for a pair, None when the post,
\* the platform key or the identifier is absent
CommittedId(p, b) ==
    IF p \in DOMAIN Committed /\ b \in DOMAIN Committed[p]
    THEN Committed[p][b].post_id ELSE None

\* C13: when a process enters its loop, a post whose content and setting
\* both changed is paired once with every platform, and no pair gets two
\* calls in a run.
Deduplication ==
    [][/\ (Stopped /\ pc' = "loop") =>
            \A p \in BothChanged, b \in Blog :
                Cardinality({i \in 1..Len(todo') : todo'[i] = [post |-> p, blog |-> b]}) = 1
       /\ \A i, j \in TopCalls' :
            (calls'[i].post = calls'[j].post /\ calls'[i].blog = calls'[j].blog) => i = j]_vars

DeduplicationWitness ==
    /\ pc = "loop"
    /\ todo = <<>>
    /\ BothChanged # {}
    /\ Len(TopSeq) = Len(BlogOrder) * Cardinality(all_modified_posts(diff))
    /\ \E i \in TopCalls : calls[i].post \in BothChanged

FinalCommit ==
    [][(pc = "loop" /\ pc' = "exit_ok") =>
          IF (IF tracked THEN disk # head ELSE disk # EmptyMap)
          THEN /\ tracked'
               /\ head' = disk
               /\ diff' = {StatusPath}
          ELSE UNCHANGED <<tracked, head, diff>>]_vars

\* C16: a process that starts while the tracked status.yml is modified ends
\* with AssertionError, and a process that ends with AssertionError has
\* computed no changed post, made no call and written nothing.
CleanTreePrecondition ==
    [][/\ (Stopped /\ tracked /\ disk # head /\ pc' # "idle") =>
            /\ pc' = "exit_err"
            /\ err' = "AssertionError"
       /\ err' = "AssertionError" =>
            /\ todo' = <<>>
            /\ calls' = <<>>
            /\ disk' = disk]_vars

CleanTreePreconditionWitness ==
    /\ pc = "exit_err"
    /\ err = "AssertionError"
    /\ tracked
    /\ disk # head
    /\ all_modified_posts(diff) # {}
    /\ ~LacksResource
    /\ calls = <<>>

\* C17: the call for a draft post on Hashnode with no committed identifier
\* is a create that sends no request and returns None; the process goes on
\* with the next pair and status.yml gets the hashnode key with post_id None.
DraftSkip ==
    [][(/\ pc = "loop"
        /\ todo # <<>>
        /\ Head(todo).blog = "hashnode"
        /\ Head(todo).post \in draft
        /\ CommittedId(Head(todo).post, "hashnode") = None
        /\ calls' # calls) =>
          /\ Len(calls') = Len(calls) + 1
          /\ calls'[Len(calls')].kind = "create"
          /\ ~calls'[Len(calls')].http
          /\ calls'[Len(calls')].ok
          /\ calls'[Len(calls')].result = None
          /\ nextId' = nextId
          /\ pc' = "loop"
          /\ err' = "none"
          /\ todo' = Tail(todo)
          /\ Head(todo).post \in DOMAIN disk'
          /\ "hashnode" \in DOMAIN disk'[Head(todo).post]
          /\ disk'[Head(todo).post]["hashnode"].post_id = None]_vars

DraftSkipWitness ==
    /\ pc = "loop"
    /\ todo # <<>>
    /\ calls # <<>>
    /\ calls[Len(calls)].blog = "hashnode"
    /\ calls[Len(calls)].kind = "create"
    /\ calls[Len(calls)].post \in draft
    /\ ~calls[Len(calls)].http
    /\ calls[Len(calls)].result = None
    /\ Recorded(disk, calls[Len(calls)])

\* C18: the Status written after the call for (p, b) is the committed Status
\* except at p, and its entry at p is p's committed entry except at b, where
\* it holds the result of the call.
WriteFrame ==
    [][(~Stopped /\ pc' = "loop" /\ todo # <<>> /\ todo' = Tail(todo)) =>
          LET p == Head(todo).post
              b == Head(todo).blog
              old == IF p \in DOMAIN Committed THEN Committed[p] ELSE EmptyMap
          IN  /\ \A q \in Posts \ {p} :
                    /\ q \in DOMAIN disk' <=> q \in DOMAIN Committed
                    /\ q \in DOMAIN disk' => disk'[q] = Committed[q]
              /\ p \in DOMAIN disk'
              /\ \A c \in Blog \ {b} :
                    /\ c \in DOMAIN disk'[p] <=> c \in DOMAIN old
                    /\ c \in DOMAIN disk'[p] => disk'[p][c] = old[c]
              /\ b \in DOMAIN disk'[p]
              /\ disk'[p][b].post_id = calls'[Len(calls')].result]_vars

WriteFrameWitness ==
    /\ pc = "loop"
    /\ Len(TopSeq) >= 2
    /\ TopSeq[1].result # None
    /\ TopSeq[Len(TopSeq)].result # None
    /\ ~Recorded(disk, TopSeq[1])
    /\ Recorded(disk, TopSeq[Len(TopSeq)])
    /\ DOMAIN Committed # {}

====
